---- MODULE Spec2Model ----
(***************************************************************************)
(* Isotherm Shifter (src/main.py): a Streamlit script that reads an        *)
(* uploaded CSV, cleans two selected columns into an isotherm series       *)
(* sorted by RH, interpolates the loading at a slider-chosen starting RH   *)
(* and adds the mass-normalised "adjusted uptake" column.                  *)
(*                                                                         *)
(* Numbers are exact rationals <<n, d>> in lowest terms with d > 0; the    *)
(* results of a division by zero are <<1,0>> (+inf), <<-1,0>> (-inf) and   *)
(* <<0,0>> (NaN), as numpy produces them.  Rounding of IEEE doubles is not *)
(* modelled: every statement below is about exact arithmetic.              *)
(*                                                                         *)
(* Streamlit re-runs the whole script after every widget interaction; one  *)
(* run is the sequence of script steps below, a user interaction is only   *)
(* taken between runs.                                                     *)
(***************************************************************************)
EXTENDS Integers, Sequences, FiniteSets

VARIABLES
    uploaded_file,       \* st.file_uploader's value: the file's table, or not present
    df_raw,              \* pd.read_csv(uploaded_file)
    rh_col, q_col,       \* the two st.selectbox values (column numbers)
    iso,                 \* the cleaned series: sequence of [rh, q]
    slider,              \* the slider widget's session state: <<>> or <<[lo, hi, value]>>
    start_rh,            \* st.slider's return value
    baseline_q,          \* np.interp(start_rh, iso[rh_col], iso[q_col])
    initial_total_mass,  \* 1.0 + baseline_q
    adjusted,            \* the "Adjusted uptake (g/g initial mass)" column
    page,                \* the elements the run has rendered so far
    pc                   \* the script's position

vars == <<uploaded_file, df_raw, rh_col, q_col, iso, slider, start_rh,
          baseline_q, initial_total_mass, adjusted, page, pc>>

(***************************************************************************)
(* Bounds.                                                                 *)
(***************************************************************************)
MaxRows == 2

(***************************************************************************)
(* Exact rational arithmetic standing for Python/numpy float arithmetic.   *)
(***************************************************************************)
Abs(n) == IF n < 0 THEN -n ELSE n

RECURSIVE Gcd(_, _)
Gcd(a, b) == IF b = 0 THEN a ELSE Gcd(b, a % b)

Norm(n, d) ==
    LET g == Gcd(Abs(n), Abs(d))
        s == IF d < 0 THEN -1 ELSE 1
    IN  <<(s * n) \div g, (s * d) \div g>>

R(n) == <<n, 1>>
NaN == <<0, 0>>
IsFinite(a) == a[2] > 0

RAdd(a, b) == Norm(a[1] * b[2] + b[1] * a[2], a[2] * b[2])
RSub(a, b) == Norm(a[1] * b[2] - b[1] * a[2], a[2] * b[2])
RMul(a, b) == Norm(a[1] * b[1], a[2] * b[2])
\* float division: x / 0 is +inf, -inf or NaN (numpy raises nothing)
RDiv(a, b) ==
    IF b[1] = 0
    THEN (IF a[1] > 0 THEN <<1, 0>> ELSE IF a[1] < 0 THEN <<-1, 0>> ELSE NaN)
    ELSE Norm(a[1] * b[2], a[2] * b[1])
RLess(a, b) == a[1] * b[2] < b[1] * a[2]
RLeq(a, b) == a[1] * b[2] <= b[1] * a[2]
RFloor(a) == a[1] \div a[2]

(***************************************************************************)
(* Tables.  A CSV cell is a number, a missing value or non-numeric text.   *)
(***************************************************************************)
Num(n, d) == [kind |-> "num", val |-> <<n, d>>]
NA == [kind |-> "na", val |-> NaN]
STR == [kind |-> "str", val |-> NaN]

\* the values a cell of the first / second CSV column is drawn from
Col1Cells == {STR, Num(0, 1), Num(2, 1)}
Col2Cells == {NA, Num(-1, 1), Num(0, 1), Num(1, 2)}

SeqsUpTo(S, n) == UNION {[1..k -> S] : k \in 0..n}

NoFile == [present |-> FALSE, ncols |-> 0, rows |-> <<>>]
\* a zero-byte file, header-only and filled tables of one or two columns
Files ==
    {[present |-> TRUE, ncols |-> 0, rows |-> <<>>]}
    \cup {[present |-> TRUE, ncols |-> 1, rows |-> r] :
             r \in SeqsUpTo({<<c>> : c \in Col1Cells}, 1)}
    \cup {[present |-> TRUE, ncols |-> 2, rows |-> r] :
             r \in SeqsUpTo(Col1Cells \X Col2Cells, MaxRows)}

NoTable == [ncols |-> 0, rows |-> <<>>]

(***************************************************************************)
(* The cleaning pipeline, lines 45-52.                                     *)
(***************************************************************************)
\* df_raw[[rh_col, q_col]]
SelectColumns(df, r, q) ==
    [i \in 1..Len(df.rows) |-> <<df.rows[i][r], df.rows[i][q]>>]

\* DataFrame.dropna(): drop the rows holding a missing value
HasNa(row) == row[1].kind = "na" \/ row[2].kind = "na"
DropNa(rows) == SelectSeq(rows, LAMBDA row : ~HasNa(row))

\* pd.to_numeric(errors="coerce"): what does not parse becomes NaN
ToNumeric(cell) == IF cell.kind = "str" THEN NA ELSE cell
Coerce(rows) == [i \in 1..Len(rows) |-> <<ToNumeric(rows[i][1]), ToNumeric(rows[i][2])>>]

Points(rows) == [i \in 1..Len(rows) |-> [rh |-> rows[i][1].val, q |-> rows[i][2].val]]

CleanRows(df, r, q) == Points(DropNa(Coerce(DropNa(SelectColumns(df, r, q)))))

IsSortedByRh(s) == \A i \in 1..(Len(s) - 1) : RLeq(s[i].rh, s[i + 1].rh)

\* DataFrame.sort_values(rh_col), kind="quicksort": ascending by RH; the
\* default sort is not stable, so rows of equal RH come out in any order.
\* reset_index(drop=True) renumbers the rows 1..n.
SortValues(s) ==
    LET n == Len(s)
        perms == {f \in [1..n -> 1..n] : \A i, j \in 1..n : i # j => f[i] # f[j]}
    IN  {t \in {[i \in 1..n |-> s[f[i]]] : f \in perms} : IsSortedByRh(t)}

(***************************************************************************)
(* np.interp(x, xp, fp) with the default left = fp[0], right = fp[-1].     *)
(***************************************************************************)
\* numpy's search: 0 when x < xp[1], Len(xp) + 1 when x > xp[Len(xp)],
\* else the last index i with xp[i] <= x (a linear scan up to four points,
\* a bisection above; on a sorted xp both end on that index)
RECURSIVE Scan(_, _, _)
Scan(x, xp, i) ==
    IF i <= Len(xp) /\ RLeq(xp[i], x) THEN Scan(x, xp, i + 1) ELSE i - 1

SearchIndex(x, xp) ==
    IF RLess(xp[Len(xp)], x) THEN Len(xp) + 1
    ELSE IF RLess(x, xp[1]) THEN 0
    ELSE Scan(x, xp, 2)

\* faulty variant: a straight line continued beyond the two ends of the data
Interp_Extrapolate(x, xp, fp) ==
    LET n == Len(xp)
        j == SearchIndex(x, xp)
        k == IF j = 0 THEN 1 ELSE IF j >= n THEN n - 1 ELSE j
    IN  IF n = 1 \/ xp[k] = xp[k + 1] THEN fp[IF j = 0 THEN 1 ELSE n]
        ELSE RAdd(RMul(RDiv(RSub(fp[k + 1], fp[k]), RSub(xp[k + 1], xp[k])),
                       RSub(x, xp[k])), fp[k])

\* faulty variant: the loading of the point at or below x, nothing interpolated
Interp_Step(x, xp, fp) ==
    LET n == Len(xp)
        j == SearchIndex(x, xp)
    IN  IF j = 0 THEN fp[1] ELSE IF j >= n THEN fp[n] ELSE fp[j]

Interp(x, xp, fp) ==
    LET n == Len(xp)
        j == SearchIndex(x, xp)
    IN  IF j = 0 THEN fp[1]
        ELSE IF j = n + 1 THEN fp[n]
        ELSE IF j = n THEN fp[n]
        ELSE IF xp[j] = x THEN fp[j]
        ELSE LET slope == RDiv(RSub(fp[j + 1], fp[j]), RSub(xp[j + 1], xp[j]))
             IN  RAdd(RMul(slope, RSub(x, xp[j])), fp[j])

RhColumn(s) == [i \in 1..Len(s) |-> s[i].rh]
QColumn(s) == [i \in 1..Len(s) |-> s[i].q]

\* line 68
Baseline(s, x) == Interp(x, RhColumn(s), QColumn(s))
\* faulty variant: the gram of salt left out of the initial mass
InitialTotalMass_NoSalt(b) == b
\* faulty variant: the dead water subtracted instead of added
InitialTotalMass_Minus(b) == RSub(R(1), b)
\* line 69
InitialTotalMass(b) == RAdd(R(1), b)
\* faulty variant: the gram of salt left out of the numerator
AdjustedUptake_NoSalt(q, m) == RDiv(RSub(q, m), m)
\* faulty variant: the difference taken the other way round
AdjustedUptake_Swapped(q, m) == RDiv(RSub(m, RAdd(R(1), q)), m)
\* line 72, one element
AdjustedUptake(q, m) == RDiv(RSub(RAdd(R(1), q), m), m)
\* faulty variant: the column computed from the rows in descending order
AdjustedColumn_Reversed(s, m) ==
    [i \in 1..Len(s) |-> RDiv(RSub(RAdd(R(1), s[Len(s) + 1 - i].q), m), m)]
\* line 72, the column
AdjustedColumn(s, m) == [i \in 1..Len(s) |-> AdjustedUptake(s[i].q, m)]

(***************************************************************************)
(* The slider, lines 61-62.                                                *)
(***************************************************************************)
Step == 1

\* Series.min() / Series.max() of the RH column
RhMin(s) == CHOOSE v \in {s[i].rh : i \in 1..Len(s)} :
                \A i \in 1..Len(s) : RLeq(v, s[i].rh)
RhMax(s) == CHOOSE v \in {s[i].rh : i \in 1..Len(s)} :
                \A i \in 1..Len(s) : RLeq(s[i].rh, v)

\* the positions the slider offers: lo, lo + step, ... up to hi
SliderGrid(lo, hi) ==
    {RAdd(lo, R(k * Step)) : k \in 0..(RFloor(RSub(hi, lo)) \div Step)}

\* faulty variant: the value kept whatever the slider's range has become
SliderValue_Sticky(widget, lo, hi) ==
    IF widget # <<>> THEN widget[1].value ELSE lo

\* st.slider(label, lo, hi, lo, step=1.0): a widget keeps its value over the
\* re-runs while its parameters stay the same; with other parameters it is
\* a new widget and starts at its default, lo
SliderValue(widget, lo, hi) ==
    IF widget # <<>> /\ widget[1].lo = lo /\ widget[1].hi = hi
    THEN widget[1].value
    ELSE lo

(***************************************************************************)
(* The guards of the script.                                               *)
(***************************************************************************)
\* line 23: uploaded_file is None
NoUpload(f) == ~f.present
\* faulty variant: the emptiness of the table left unchecked
TooSmall_ColumnsOnly(df) == df.ncols < 2
\* line 37: df_raw.empty or len(df_raw.columns) < 2
TooSmall(df) == Len(df.rows) = 0 \/ df.ncols < 2
\* line 54: iso.empty
IsoEmpty(s) == Len(s) = 0

Finished == pc \in {"stopped", "done"}

\* what a run starts from: the widgets' values are kept, the rest is rebuilt
Rerun ==
    /\ df_raw' = NoTable
    /\ iso' = <<>>
    /\ start_rh' = NaN
    /\ baseline_q' = NaN
    /\ initial_total_mass' = NaN
    /\ adjusted' = <<>>
    /\ page' = {}
    /\ pc' = "upload"

Init ==
    /\ uploaded_file = NoFile
    /\ df_raw = NoTable
    /\ rh_col = 1
    /\ q_col = 2
    /\ iso = <<>>
    /\ slider = <<>>
    /\ start_rh = NaN
    /\ baseline_q = NaN
    /\ initial_total_mass = NaN
    /\ adjusted = <<>>
    /\ page = {}
    /\ pc = "upload"

(***************************************************************************)
(* The user's interactions; each one makes Streamlit run the script again. *)
(***************************************************************************)
\* line 22: a file is dropped on the uploader
UploadFile ==
    /\ Finished
    /\ \E f \in Files : f # uploaded_file /\ uploaded_file' = f
    /\ Rerun
    /\ UNCHANGED <<rh_col, q_col, slider>>

\* line 22: the file is removed from the uploader
RemoveFile ==
    /\ Finished
    /\ uploaded_file.present
    /\ uploaded_file' = NoFile
    /\ Rerun
    /\ UNCHANGED <<rh_col, q_col, slider>>

\* lines 41-42: another column is picked in one of the select boxes
PickColumns ==
    /\ Finished
    /\ "select" \in page
    /\ \E r, q \in 1..df_raw.ncols :
          /\ <<r, q>> # <<rh_col, q_col>>
          /\ rh_col' = r
          /\ q_col' = q
    /\ Rerun
    /\ UNCHANGED <<uploaded_file, slider>>

\* line 62: the slider is dragged to another position
MoveSlider ==
    /\ Finished
    /\ "slider" \in page
    /\ \E v \in SliderGrid(slider[1].lo, slider[1].hi) :
          /\ v # slider[1].value
          /\ slider' = <<[slider[1] EXCEPT !.value = v]>>
    /\ Rerun
    /\ UNCHANGED <<uploaded_file, rh_col, q_col>>

(***************************************************************************)
(* The script, top to bottom.  A widget that a run does not reach loses    *)
(* its session state.                                                      *)
(***************************************************************************)
\* lines 22-25
CheckUpload ==
    /\ pc = "upload"
    /\ IF NoUpload(uploaded_file)
       THEN /\ page' = page \cup {"info"}
            /\ pc' = "stopped"
            /\ rh_col' = 1
            /\ q_col' = 2
            /\ slider' = <<>>
       ELSE /\ pc' = "read"
            /\ UNCHANGED <<page, rh_col, q_col, slider>>
    /\ UNCHANGED <<uploaded_file, df_raw, iso, start_rh, baseline_q,
                   initial_total_mass, adjusted>>

\* lines 30-32; pd.read_csv raises EmptyDataError on a file without columns
ReadCsv ==
    /\ pc = "read"
    /\ IF uploaded_file.ncols = 0
       THEN /\ page' = page \cup {"exception"}
            /\ pc' = "stopped"
            /\ rh_col' = 1
            /\ q_col' = 2
            /\ slider' = <<>>
            /\ UNCHANGED df_raw
       ELSE /\ df_raw' = [ncols |-> uploaded_file.ncols, rows |-> uploaded_file.rows]
            /\ page' = page \cup {"raw"}
            /\ pc' = "columns"
            /\ UNCHANGED <<rh_col, q_col, slider>>
    /\ UNCHANGED <<uploaded_file, iso, start_rh, baseline_q,
                   initial_total_mass, adjusted>>

\* lines 37-42
CheckColumns ==
    /\ pc = "columns"
    /\ IF TooSmall(df_raw)
       THEN /\ page' = page \cup {"error_columns"}
            /\ pc' = "stopped"
            /\ rh_col' = 1
            /\ q_col' = 2
            /\ slider' = <<>>
       ELSE /\ page' = page \cup {"select"}
            /\ pc' = "clean"
            /\ UNCHANGED <<rh_col, q_col, slider>>
    /\ UNCHANGED <<uploaded_file, df_raw, iso, start_rh, baseline_q,
                   initial_total_mass, adjusted>>

\* lines 45-52; with the same column picked twice the frame has two columns
\* of one name and sort_values raises ValueError (label not unique)
Clean ==
    /\ pc = "clean"
    /\ IF rh_col = q_col
       THEN /\ page' = page \cup {"exception"}
            /\ pc' = "stopped"
            /\ slider' = <<>>
            /\ UNCHANGED iso
       ELSE /\ iso' \in SortValues(CleanRows(df_raw, rh_col, q_col))
            /\ pc' = "check_iso"
            /\ UNCHANGED <<page, slider>>
    /\ UNCHANGED <<uploaded_file, df_raw, rh_col, q_col, start_rh, baseline_q,
                   initial_total_mass, adjusted>>

\* lines 54-56
CheckIso ==
    /\ pc = "check_iso"
    /\ IF IsoEmpty(iso)
       THEN /\ page' = page \cup {"error_numeric"}
            /\ pc' = "stopped"
            /\ slider' = <<>>
       ELSE /\ pc' = "slider"
            /\ UNCHANGED <<page, slider>>
    /\ UNCHANGED <<uploaded_file, df_raw, rh_col, q_col, iso, start_rh,
                   baseline_q, initial_total_mass, adjusted>>

\* lines 61-62
Slider ==
    /\ pc = "slider"
    /\ LET rh_min == RhMin(iso)
           rh_max == RhMax(iso)
           v == SliderValue(slider, rh_min, rh_max)
       IN  /\ start_rh' = v
           /\ slider' = <<[lo |-> rh_min, hi |-> rh_max, value |-> v]>>
    /\ page' = page \cup {"slider"}
    /\ pc' = "baseline"
    /\ UNCHANGED <<uploaded_file, df_raw, rh_col, q_col, iso, baseline_q,
                   initial_total_mass, adjusted>>

\* lines 68-69
ComputeBaseline ==
    /\ pc = "baseline"
    /\ baseline_q' = Baseline(iso, start_rh)
    /\ initial_total_mass' = InitialTotalMass(Baseline(iso, start_rh))
    /\ pc' = "adjust"
    /\ UNCHANGED <<uploaded_file, df_raw, rh_col, q_col, iso, slider, start_rh,
                   adjusted, page>>

\* line 72
ComputeAdjusted ==
    /\ pc = "adjust"
    /\ adjusted' = AdjustedColumn(iso, initial_total_mass)
    /\ pc' = "plot"
    /\ UNCHANGED <<uploaded_file, df_raw, rh_col, q_col, iso, slider, start_rh,
                   baseline_q, initial_total_mass, page>>

\* lines 77-85
Plot ==
    /\ pc = "plot"
    /\ page' = page \cup {"chart"}
    /\ pc' = "download"
    /\ UNCHANGED <<uploaded_file, df_raw, rh_col, q_col, iso, slider, start_rh,
                   baseline_q, initial_total_mass, adjusted>>

\* lines 90-95
Download ==
    /\ pc = "download"
    /\ page' = page \cup {"download"}
    /\ pc' = "done"
    /\ UNCHANGED <<uploaded_file, df_raw, rh_col, q_col, iso, slider, start_rh,
                   baseline_q, initial_total_mass, adjusted>>

Next ==
    \/ UploadFile
    \/ RemoveFile
    \/ PickColumns
    \/ MoveSlider
    \/ CheckUpload
    \/ ReadCsv
    \/ CheckColumns
    \/ Clean
    \/ CheckIso
    \/ Slider
    \/ ComputeBaseline
    \/ ComputeAdjusted
    \/ Plot
    \/ Download

Spec == Init /\ [][Next]_vars

(***************************************************************************)
(* Lines 68-72 as a function of (iso, start_rh) alone: the series is any   *)
(* series sorted by RH, the starting RH any number, inside the RH range or *)
(* not.  The two worked series of the documentation are among the inputs.  *)
(***************************************************************************)
P(rh, qn, qd) == [rh |-> R(rh), q |-> Norm(qn, qd)]

Series3 == <<P(0, 10, 100), P(50, 30, 100), P(100, 60, 100)>>
Series6 == <<P(0, 5, 100), P(20, 10, 100), P(40, 18, 100),
             P(60, 30, 100), P(80, 50, 100), P(100, 80, 100)>>

FnPoints == {[rh |-> x, q |-> y] : x \in {R(0), R(2), R(3)},
                                   y \in {R(-1), R(0), <<1, 2>>}}
FnSeries ==
    {s \in SeqsUpTo(FnPoints, MaxRows) : Len(s) > 0 /\ IsSortedByRh(s)}
    \cup {Series3, Series6}
FnStarts == {R(-1), R(0), R(1), R(2), <<5, 2>>, R(3), R(4), R(25), R(40), R(101)}

InitFn ==
    /\ uploaded_file = NoFile
    /\ df_raw = NoTable
    /\ rh_col = 1
    /\ q_col = 2
    /\ iso \in FnSeries
    /\ slider = <<>>
    /\ start_rh \in FnStarts
    /\ baseline_q = NaN
    /\ initial_total_mass = NaN
    /\ adjusted = <<>>
    /\ page = {}
    /\ pc = "baseline"

NextFn ==
    \/ ComputeBaseline
    \/ ComputeAdjusted

SpecFn == InitFn /\ [][NextFn]_vars

(***************************************************************************)
(* Properties.                                                             *)
(***************************************************************************)
AfterBaseline == pc \in {"adjust", "plot", "download", "done"}
AfterAdjusted == pc \in {"plot", "download", "done"}
Rows == 1..Len(iso)

\* every point at RH x carries the loading of point i
SameLoadingAt(i) == \A k \in Rows : iso[k].rh = iso[i].rh => iso[k].q = iso[i].q

C2_Clamping ==
    AfterBaseline =>
        /\ RLess(start_rh, iso[1].rh) => baseline_q = iso[1].q
        /\ RLess(iso[Len(iso)].rh, start_rh) => baseline_q = iso[Len(iso)].q
        /\ IsFinite(baseline_q)

C2_Witness ==
    /\ AfterBaseline
    /\ Len(iso) >= 2
    /\ RLess(start_rh, iso[1].rh)
    /\ iso[1].rh # iso[2].rh
    /\ iso[1].q # iso[2].q
    /\ baseline_q = iso[1].q

\* the linear interpolant through points i and i + 1 at x
Linear(i, x) ==
    RAdd(iso[i].q,
         RDiv(RMul(RSub(x, iso[i].rh), RSub(iso[i + 1].q, iso[i].q)),
              RSub(iso[i + 1].rh, iso[i].rh)))

Between == \A i \in 1..(Len(iso) - 1) :
               (RLess(iso[i].rh, start_rh) /\ RLess(start_rh, iso[i + 1].rh))
                   => baseline_q = Linear(i, start_rh)

Example3 == (iso = Series3 /\ start_rh = R(25)) => baseline_q = <<1, 5>>

\* C3 as stated: between two consecutive points the baseline is the linear
\* interpolant, at a data RH x_k it is q_k, and the worked example gives 0.20.
C3_Interpolation_Original ==
    AfterBaseline =>
        /\ Between
        /\ \A k \in Rows : iso[k].rh = start_rh => baseline_q = iso[k].q
        /\ Example3

\* C3, amended: as stated, the baseline at a data RH x_k being q_k provided
\* every point at that RH carries the loading q_k.
C3_Interpolation ==
    AfterBaseline =>
        /\ Between
        /\ \A k \in Rows :
               (iso[k].rh = start_rh /\ SameLoadingAt(k)) => baseline_q = iso[k].q
        /\ Example3

C3_Witness ==
    /\ AfterBaseline
    /\ iso = Series6
    /\ start_rh = R(25)
    /\ baseline_q = <<3, 25>>

\* C4 (mass-normalised transform): initial_total_mass = 1 + baseline_q and
\* every point's adjusted uptake is (loading - baseline_q) / (1 + baseline_q);
\* the worked example gives 0.18, 1.18, 0.62/1.18 and -0.13/1.18.
C4_Transform ==
    /\ AfterBaseline => initial_total_mass = RAdd(R(1), baseline_q)
    /\ AfterAdjusted =>
          /\ Len(adjusted) = Len(iso)
          /\ \A i \in Rows :
                /\ adjusted[i] = RDiv(RSub(RAdd(R(1), iso[i].q), initial_total_mass),
                                      initial_total_mass)
                /\ adjusted[i] = RDiv(RSub(iso[i].q, baseline_q), RAdd(R(1), baseline_q))
          /\ (iso = Series6 /\ start_rh = R(40)) =>
                /\ baseline_q = <<9, 50>>
                /\ initial_total_mass = <<59, 50>>
                /\ adjusted[6] = <<31, 59>>
                /\ adjusted[1] = <<-13, 118>>

C4_Witness ==
    /\ AfterAdjusted
    /\ iso = Series6
    /\ start_rh = R(40)
    /\ adjusted[3] = R(0)

\* the rows of df_raw whose two selected cells are both numbers, in file order
NumericRows ==
    LET sel == SelectSeq(df_raw.rows,
                   LAMBDA row : row[rh_col].kind = "num" /\ row[q_col].kind = "num")
    IN  [i \in 1..Len(sel) |-> [rh |-> sel[i][rh_col].val, q |-> sel[i][q_col].val]]

Count(s, x) == Cardinality({i \in 1..Len(s) : s[i] = x})
SameRows(s, t) ==
    /\ Len(s) = Len(t)
    /\ \A i \in 1..Len(s) : Count(s, s[i]) = Count(t, s[i])

Computing == pc \in {"baseline", "adjust", "plot", "download", "done"}
Produced ==
    \/ page \cap {"slider", "chart", "download"} # {}
    \/ adjusted # <<>>
    \/ baseline_q # NaN
    \/ initial_total_mass # NaN

\* C5 (fail-fast): without a file, with an empty table or fewer than two
\* columns, or with no numeric row left, the run stops at its message and
\* nothing is computed, charted or offered for download; the computation is
\* only reached with every guard passed.
C5_FailFast ==
    /\ pc \in {"clean", "check_iso", "slider"} \cup {"baseline", "adjust", "plot", "download", "done"} =>
          /\ uploaded_file.present
          /\ Len(df_raw.rows) > 0
          /\ df_raw.ncols >= 2
    /\ (Computing \/ Produced) =>
          /\ uploaded_file.present
          /\ Len(df_raw.rows) > 0
          /\ df_raw.ncols >= 2
          /\ Len(iso) > 0
    /\ pc = "stopped" =>
          /\ ~Produced
          /\ page \cap {"info", "error_columns", "error_numeric", "exception"} # {}
    /\ Finished =>
          /\ ~uploaded_file.present => (pc = "stopped" /\ page = {"info"})
          /\ (uploaded_file.present /\ uploaded_file.ncols > 0
                 /\ (Len(uploaded_file.rows) = 0 \/ uploaded_file.ncols < 2))
                => (pc = "stopped" /\ page = {"raw", "error_columns"})
          /\ (uploaded_file.present /\ uploaded_file.ncols >= 2
                 /\ Len(uploaded_file.rows) > 0 /\ rh_col # q_col
                 /\ Len(NumericRows) = 0)
                => (pc = "stopped" /\ page = {"raw", "select", "error_numeric"})

C5_Witness ==
    /\ pc = "stopped"
    /\ "error_numeric" \in page
    /\ Len(df_raw.rows) = MaxRows
    /\ ~Produced

C6_Cleaning_DistinctRh ==
    pc \in {"check_iso", "slider"} \cup {"baseline", "adjust", "plot", "download", "done"} =>
        /\ SameRows(iso, NumericRows)
        /\ IsSortedByRh(iso)
        /\ (\A i \in 1..(Len(NumericRows) - 1) :
               RLess(NumericRows[i].rh, NumericRows[i + 1].rh)) => iso = NumericRows

C6_Witness ==
    /\ pc = "check_iso"
    /\ Len(df_raw.rows) = MaxRows
    /\ Len(iso) = MaxRows
    /\ iso # NumericRows

\* C7 (no division by zero on physical data): with every loading >= 0 the
\* baseline is >= 0 and the divisor 1 + baseline_q is >= 1, wherever the
\* starting RH lies, so every adjusted uptake is an ordinary number.
C7_NoDivisionByZero ==
    (\A i \in Rows : RLeq(R(0), iso[i].q)) =>
        /\ AfterBaseline =>
              /\ RLeq(R(0), baseline_q)
              /\ RLeq(R(1), initial_total_mass)
              /\ initial_total_mass # R(0)
        /\ AfterAdjusted => \A i \in Rows : IsFinite(adjusted[i])

C7_Witness ==
    /\ AfterAdjusted
    /\ \A i \in Rows : RLeq(R(0), iso[i].q)
    /\ RLess(iso[Len(iso)].rh, start_rh)
    /\ baseline_q = R(0)
    /\ initial_total_mass = R(1)

\* C8 (monotonicity): with 1 + baseline_q > 0, a larger loading gives a
\* strictly larger adjusted uptake and equal loadings give equal ones.
C8_Monotone ==
    (AfterAdjusted /\ RLess(R(0), RAdd(R(1), baseline_q))) =>
        \A i, k \in Rows :
            /\ RLess(iso[i].q, iso[k].q) => RLess(adjusted[i], adjusted[k])
            /\ iso[i].q = iso[k].q => adjusted[i] = adjusted[k]

C8_Witness ==
    /\ AfterAdjusted
    /\ RLess(R(0), RAdd(R(1), baseline_q))
    /\ \E i, k \in Rows :
          /\ RLess(iso[i].q, iso[k].q)
          /\ RLess(adjusted[i], R(0))
          /\ RLess(R(0), adjusted[k])

C10_SliderBound ==
    /\ [](Computing =>
            /\ RLeq(RhMin(iso), start_rh)
            /\ RLeq(start_rh, RhMax(iso))
            /\ start_rh \in SliderGrid(RhMin(iso), RhMax(iso))
            /\ SearchIndex(start_rh, RhColumn(iso)) \in 1..Len(iso))
    /\ [][(pc = "slider" /\ slider = <<>>) => start_rh' = RhMin(iso)]_vars

C10_Witness ==
    /\ pc = "done"
    /\ RLess(RhMin(iso), start_rh)
    /\ RLess(start_rh, RhMax(iso))

====
